---- MODULE Spec2Model ----
(***************************************************************************)
(* Victoria assessment core: FixedTraitScorer (trait scoring) and          *)
(* ArchetypeDetector (archetype classification).                           *)
(*                                                                         *)
(* Numbers.  Scores are fixed-point integers in units of 1/1200, so that   *)
(* 1.0 is 1200, 0.5 is 600 and 0.05 is 60.  Every detector input is a      *)
(* multiple of 0.05, which makes the average over 1..5 key traits an exact *)
(* integer.  Logits are fixed-point integers in units of 1/1000.           *)
(***************************************************************************)
EXTENDS Integers, Sequences, FiniteSets, TLC

VARIABLES
    pc,             \* "idle", or the operation whose result is being held
    archetypes,     \* ArchetypeDetector.archetypes: the catalog, in insertion order
    trait_scores,   \* argument of the last detect_archetype call
    result,         \* value returned by the last detect_archetype call
    use_rasch,                  \* FixedTraitScorer.use_rasch
    rasch_item_difficulties,    \* FixedTraitScorer.rasch_item_difficulties
    rasch_person_abilities,     \* FixedTraitScorer.rasch_person_abilities
    df,             \* argument of the last calculate_trait_scores call: the rows
    rasch_results,  \* argument of the last calculate_trait_scores call
    profiles,       \* value returned by the last calculate_trait_scores call
    path_taken,     \* per person of the last call, the branch of _calculate_person_traits
    fallback_traits,    \* per person of the last call, the traits handed to
                        \* _calculate_trait_fallback_mean
    corr_trait,     \* trait_name argument of the last correlation call
    corr_archetype, \* archetype argument of the last correlation call
    corr_value,     \* value returned by the last correlation call
    correlation_data,   \* value returned by the last get_archetype_correlation_data call
    passed,         \* the arguments of the call in progress, as the caller passed them
    logit_arg,      \* argument of the last _convert_logit_to_0_1 call
    logit_result,   \* value returned by the last _convert_logit_to_0_1 call
    fallback_data,  \* person_data argument of the last _calculate_trait_fallback_mean call
    fallback_trait, \* trait argument of the last _calculate_trait_fallback_mean call
    fallback_mean,  \* value returned by the last _calculate_trait_fallback_mean call
    openai_client,  \* ReportGenerator.openai_client: TRUE when a client is set
    profile_data,   \* profile_data of the pipeline run in progress, a dict
    inspiring_content   \* outcome of the last generate_inspiring_content call

detector_vars == <<archetypes, trait_scores, result>>

scorer_vars == <<use_rasch, rasch_item_difficulties, rasch_person_abilities>>

call_vars == <<df, rasch_results, profiles, path_taken, fallback_traits>>

corr_vars == <<corr_trait, corr_archetype, corr_value, correlation_data>>

logit_vars == <<logit_arg, logit_result>>

fallback_vars == <<fallback_data, fallback_trait, fallback_mean>>

direct_vars == <<logit_vars, fallback_vars>>

report_vars == <<openai_client, profile_data, inspiring_content>>

vars ==
    <<pc, detector_vars, scorer_vars, call_vars, corr_vars, passed, direct_vars,
      report_vars>>

\* 1.0 and 0.5 in score units
One == 60 * 20
Half == 60 * 10

\* ---------------------------------------------------------------- bounds

\* detect_archetype inputs: a base map changed in at most MaxOverrides entries
MaxOverrides == 2

\* calculate_trait_scores inputs: tables of at most MaxRows rows
MaxRows == 2

\* calculate_trait_scores inputs: at most MaxAnswered cells that are not missing
MaxAnswered == 2

\* ------------------------------------------------------ ArchetypeDetector

\* ArchetypeDetector.__init__: self.archetypes, in dict insertion order
Catalog ==
    << [id |-> "strategic_innovation", name |-> "Strategic Innovation", score |-> 0,
        key_traits |-> <<"Risk Taking", "Innovation Orientation",
                         "Critical Thinking", "Decision Making">>],
       [id |-> "resilient_leadership", name |-> "Resilient Leadership", score |-> 0,
        key_traits |-> <<"Resilience and Grit", "Team Building", "Servant Leadership",
                         "Adaptability", "Risk Taking">>],
       [id |-> "collaborative_responsibility", name |-> "Collaborative Responsibility",
        score |-> 0,
        key_traits |-> <<"Servant Leadership", "Team Building", "Accountability">>],
       [id |-> "ambitious_drive", name |-> "Ambitious Drive", score |-> 0,
        key_traits |-> <<"Drive and Ambition", "Resilience and Grit",
                         "Problem Solving">>],
       [id |-> "adaptive_intelligence", name |-> "Adaptive Intelligence", score |-> 0,
        key_traits |-> <<"Critical Thinking", "Problem Solving",
                         "Emotional Intelligence", "Adaptability">>] >>

\* ArchetypeDetector.__init__: self.trait_name_to_code
TraitNames ==
    { "Risk Taking", "Innovation Orientation", "Critical Thinking", "Decision Making",
      "Resilience and Grit", "Team Building", "Servant Leadership", "Adaptability",
      "Accountability", "Drive and Ambition", "Problem Solving",
      "Emotional Intelligence", "Relationship-Building", "Negotiation",
      "Conflict Resolution", "Approach to Failure", "Social Orientation" }

trait_name_to_code(n) ==
    CASE n = "Risk Taking" -> "RT"
      [] n = "Innovation Orientation" -> "IO"
      [] n = "Critical Thinking" -> "CT"
      [] n = "Decision Making" -> "DM"
      [] n = "Resilience and Grit" -> "RG"
      [] n = "Team Building" -> "TB"
      [] n = "Servant Leadership" -> "SL"
      [] n = "Adaptability" -> "AD"
      [] n = "Accountability" -> "A"
      [] n = "Drive and Ambition" -> "DA"
      [] n = "Problem Solving" -> "PS"
      [] n = "Emotional Intelligence" -> "EI"
      [] n = "Relationship-Building" -> "RB"
      [] n = "Negotiation" -> "N"
      [] n = "Conflict Resolution" -> "C"
      [] n = "Approach to Failure" -> "F"
      [] n = "Social Orientation" -> "IN"
      [] OTHER -> n              \* .get(trait_name, trait_name)

TraitCodes == { trait_name_to_code(n) : n \in TraitNames }

RECURSIVE SumSeq(_)
SumSeq(s) == IF s = <<>> THEN 0 ELSE Head(s) + SumSeq(Tail(s))

\* mutant: a key trait absent from ts is counted as 0 instead of skipped
RECURSIVE key_trait_scores_zero_fill(_, _)
key_trait_scores_zero_fill(kts, ts) ==
    IF kts = <<>> THEN <<>>
    ELSE LET trait_code == trait_name_to_code(Head(kts))
             rest == key_trait_scores_zero_fill(Tail(kts), ts)
         IN  IF trait_code \in DOMAIN ts THEN <<ts[trait_code]>> \o rest
             ELSE <<0>> \o rest

\* detect_archetype, inner loop: the scores of the key traits present in ts
RECURSIVE key_trait_scores(_, _)
key_trait_scores(kts, ts) ==
    IF kts = <<>> THEN <<>>
    ELSE LET trait_code == trait_name_to_code(Head(kts))
             rest == key_trait_scores(Tail(kts), ts)
         IN  IF trait_code \in DOMAIN ts THEN <<ts[trait_code]>> \o rest ELSE rest

\* sum(key_trait_scores) / len(key_trait_scores)
avg_score(ks) == SumSeq(ks) \div Len(ks)

\* mutant: a later archetype with an equal average replaces the best one
Better_or_equal(avg, best_score) == avg >= best_score

\* the comparison that replaces the best archetype
Better(avg, best_score) == avg > best_score

\* mutant: averages are stored under the archetype's display name
ScoreKey_name(cat, i) == cat[i].name

\* the key under which an archetype's average is stored in archetype_scores
ScoreKey(cat, i) == cat[i].id

\* detect_archetype, outer loop from catalog position i on; st holds
\* best_archetype (a catalog position, 0 for None), best_score and archetype_scores
RECURSIVE DetectLoop(_, _, _, _)
DetectLoop(cat, ts, i, st) ==
    IF i > Len(cat) THEN st
    ELSE LET ks == key_trait_scores(cat[i].key_traits, ts)
         IN  IF ks = <<>> THEN DetectLoop(cat, ts, i + 1, st)
             ELSE LET avg == avg_score(ks)
                      k == ScoreKey(cat, i)
                      scores == [x \in DOMAIN st.archetype_scores \cup {k} |->
                                    IF x = k THEN avg ELSE st.archetype_scores[x]]
                      st2 == IF Better(avg, st.best_score)
                             THEN [best_archetype |-> i, best_score |-> avg,
                                   archetype_scores |-> scores]
                             ELSE [st EXCEPT !.archetype_scores = scores]
                  IN  DetectLoop(cat, ts, i + 1, st2)

NoScores == [x \in {} |-> 0]

\* mutant: the best score starts below every possible average
InitialBestScore_below == 0 - 1

\* best_score = 0.0 before the loop
InitialBestScore == 0

Min(a, b) == IF a < b THEN a ELSE b

\* mutant: the confidence is not cut at 1.0
Confidence_unclamped(best_score) == best_score

\* min(best_score, 1.0)
Confidence(best_score) == Min(best_score, One)

\* mutant: without a winner the first archetype of the catalog is reported
UnknownResult_first ==
    [archetype_name |-> Catalog[1].name, archetype_score |-> 0, confidence |-> 0,
     key_traits |-> Catalog[1].key_traits, all_scores |-> NoScores]

\* the result returned when best_archetype is None
UnknownResult ==
    [archetype_name |-> "Unknown", archetype_score |-> 0, confidence |-> 0,
     key_traits |-> <<>>, all_scores |-> NoScores]

\* the branch taken on best_archetype
HasBest(st) == st.best_archetype # 0

detect_archetype(cat, ts) ==
    LET st == DetectLoop(cat, ts, 1,
                  [best_archetype |-> 0, best_score |-> InitialBestScore,
                   archetype_scores |-> NoScores])
    IN  IF HasBest(st)
        THEN [archetype_name |-> cat[st.best_archetype].name,
              archetype_score |-> st.best_score,
              confidence |-> Confidence(st.best_score),
              key_traits |-> cat[st.best_archetype].key_traits,
              all_scores |-> st.archetype_scores]
        ELSE UnknownResult

\* mutant: detect_archetype reverses the key-trait list of the archetype it returns
archetypes_after_detect_reordered(cat, ts) ==
    LET st == DetectLoop(cat, ts, 1,
                  [best_archetype |-> 0, best_score |-> InitialBestScore,
                   archetype_scores |-> NoScores])
        Reverse(s) == [j \in 1..Len(s) |-> s[Len(s) + 1 - j]]
    IN  [i \in 1..Len(cat) |->
            IF i = st.best_archetype
            THEN [cat[i] EXCEPT !.key_traits = Reverse(cat[i].key_traits)]
            ELSE cat[i]]

\* self.archetypes after detect_archetype: the method assigns no attribute
archetypes_after_detect(cat, ts) == cat

\* ----------------------------------------- trait / archetype correlation
\* Correlations are integers in units of 1/100; the argument of round(., 2)
\* is an integer in units of 1/1000.

\* sum(ord(c) for c in s), for the trait and archetype names of the model
OrdSum(s) ==
    CASE s = "Social Orientation" -> 1799
      [] s = "Resilience and Grit" -> 1804
      [] s = "Servant Leadership" -> 1796
      [] s = "Emotional Intelligence" -> 2203
      [] s = "Decision Making" -> 1445
      [] s = "Problem Solving" -> 1491
      [] s = "Drive and Ambition" -> 1696
      [] s = "Innovation Orientation" -> 2257
      [] s = "Adaptability" -> 1240
      [] s = "Critical Thinking" -> 1671
      [] s = "Team Building" -> 1237
      [] s = "Risk Taking" -> 1047
      [] s = "Accountability" -> 1467
      [] s = "Relationship-Building" -> 2125
      [] s = "Negotiation" -> 1153
      [] s = "Conflict Resolution" -> 1926
      [] s = "Approach to Failure" -> 1817
      [] s = "Decision-Making" -> 1458
      [] s = "Risk-Taking" -> 1060
      [] s = "Leadership" -> 1025
      [] s = "Strategic Innovation" -> 2027
      [] s = "Resilient Leadership" -> 2000
      [] s = "Collaborative Responsibility" -> 2887
      [] s = "Ambitious Drive" -> 1479
      [] s = "Adaptive Intelligence" -> 2081
      [] s = "Custom Archetype" -> 1600

\* trait_categories.get(trait_name, "General")
trait_categories(trait_name) ==
    CASE trait_name \in {"Social Orientation", "Relationship-Building", "Team Building",
                         "Servant Leadership", "Negotiation", "Conflict Resolution",
                         "Emotional Intelligence"} -> "Social"
      [] trait_name \in {"Decision Making", "Decision-Making", "Problem Solving",
                         "Problem-Solving", "Critical Thinking",
                         "Innovation Orientation"} -> "Cognitive"
      [] trait_name \in {"Resilience and Grit", "Resilience & Grit", "Drive and Ambition",
                         "Drive & Ambition", "Risk Taking", "Risk-Taking",
                         "Approach to Failure", "Adaptability",
                         "Accountability"} -> "Resilience"
      [] OTHER -> "General"

\* archetype_focus.get(archetype.name, {"primary": "None", "secondary": "None"})
archetype_focus(name) ==
    CASE name = "Strategic Innovation" -> [primary |-> "Cognitive", secondary |-> "Resilience"]
      [] name = "Resilient Leadership" -> [primary |-> "Social", secondary |-> "Resilience"]
      [] name = "Collaborative Responsibility" ->
            [primary |-> "Social", secondary |-> "Resilience"]
      [] name = "Ambitious Drive" -> [primary |-> "Resilience", secondary |-> "Cognitive"]
      [] name = "Adaptive Intelligence" -> [primary |-> "Cognitive", secondary |-> "Social"]
      [] OTHER -> [primary |-> "None", secondary |-> "None"]

Max(a, b) == IF a > b THEN a ELSE b

\* round(x, 2): x in units of 1/1000, the result in units of 1/100, a tie to even
Round2(x) ==
    LET q == x \div 10
        r == x % 10
    IN  IF r > 5 \/ (r = 5 /\ q % 2 = 1) THEN q + 1 ELSE q

\* mutant: the explicit override is never taken
IsOverridden_never(trait_name) == FALSE

\* trait_name == "Social Orientation"
IsOverridden(trait_name) == trait_name = "Social Orientation"

InList(x, list) == \E j \in 1..Len(list) : list[j] = x

\* mutant: positions are counted from 1
ListIndex_one_based(list, x) ==
    CHOOSE j \in 1..Len(list) : list[j] = x /\ \A k \in 1..(j - 1) : list[k] # x

\* list.index(x): the 0-based position of the first occurrence
ListIndex(list, x) ==
    (CHOOSE j \in 1..Len(list) : list[j] = x /\ \A k \in 1..(j - 1) : list[k] # x) - 1

\* mutant: the position variance is not cut at 0
PositionBonus_unfloored(trait_index) == 50 - (trait_index * 10)

\* max(0, 0.05 - (trait_index * 0.01))
PositionBonus(trait_index) == Max(0, 50 - (trait_index * 10))

\* mutant: the seed ignores the archetype
Seed_trait_only(trait_name, archetype_name) == OrdSum(trait_name)

\* seed = sum(ord(c) for c in trait_name + archetype.name)
Seed(trait_name, archetype_name) == OrdSum(trait_name) + OrdSum(archetype_name)

\* mutant: the variation ranges over three times its span
Variation_widened(seed, modulus) == (seed % (modulus * 3)) * 10

\* variation = (seed % 11) * 0.01, or (seed % 15) * 0.01
Variation(seed, modulus) == (seed % modulus) * 10

_calculate_trait_archetype_correlation(trait_name, archetype) ==
    IF IsOverridden(trait_name) THEN 0
    ELSE IF InList(trait_name, archetype.key_traits)
    THEN Round2(850 + PositionBonus(ListIndex(archetype.key_traits, trait_name)))
    ELSE LET this_trait_category == trait_categories(trait_name)
             this_archetype_focus == archetype_focus(archetype.name)
             seed == Seed(trait_name, archetype.name)
         IN  IF this_trait_category = this_archetype_focus.primary
             THEN Round2(550 + Variation(seed, 11))
             ELSE IF this_trait_category = this_archetype_focus.secondary
             THEN Round2(400 + Variation(seed, 11))
             ELSE Round2(200 + Variation(seed, 15))

\* the trait order of get_archetype_correlation_data
all_traits ==
    << "Social Orientation", "Resilience and Grit", "Servant Leadership",
       "Emotional Intelligence", "Decision Making", "Problem Solving",
       "Drive and Ambition", "Innovation Orientation", "Adaptability",
       "Critical Thinking", "Team Building", "Risk Taking", "Accountability",
       "Relationship-Building", "Negotiation", "Conflict Resolution",
       "Approach to Failure" >>

\* mutant: the table is keyed by the archetype's id
CorrelationKey_id(archetype) == archetype.id

\* correlation_data[archetype_name], archetype_name = archetype.name
CorrelationKey(archetype) == archetype.name

\* correlation_scores of one archetype
correlation_scores(archetype) ==
    [j \in 1..Len(all_traits) |->
        _calculate_trait_archetype_correlation(all_traits[j], archetype)]

\* a later archetype stored under the same key replaces an earlier one
get_archetype_correlation_data(cat) ==
    [k \in { CorrelationKey(cat[i]) : i \in 1..Len(cat) } |->
        LET i == CHOOSE x \in 1..Len(cat) :
                    /\ CorrelationKey(cat[x]) = k
                    /\ \A y \in (x + 1)..Len(cat) : CorrelationKey(cat[y]) # k
        IN  correlation_scores(cat[i])]

\* ------------------------------------------------------- numbers with NaN

\* float('nan'): any integer outside every score and logit range
NaN == 0 - 999999999

IsNaN(x) == x = NaN

NAdd(a, b) == IF IsNaN(a) \/ IsNaN(b) THEN NaN ELSE a + b

NSub(a, b) == IF IsNaN(a) \/ IsNaN(b) THEN NaN ELSE a - b

\* a product or quotient by an exact (never NaN) factor
NTimes(a, k) == IF IsNaN(a) THEN NaN ELSE a * k

NOver(a, k) == IF IsNaN(a) THEN NaN ELSE a \div k

RECURSIVE NSum(_)
NSum(s) == IF s = <<>> THEN 0 ELSE NAdd(Head(s), NSum(Tail(s)))

Abs(x) == IF x < 0 THEN 0 - x ELSE x

\* dict[k] = v
Put(d, k, v) == [x \in DOMAIN d \cup {k} |-> IF x = k THEN v ELSE d[x]]

\* ------------------------------------ QuestionTraitMapper (TraitQuestionMap)

\* get_trait_names(): the 17 trait codes
trait_names ==
    <<"IN", "RG", "SL", "EI", "DM", "PS", "DA", "IO", "AD", "CT", "TB", "RT", "A",
      "RB", "N", "C", "F">>

QReflect == "I take time to reflect before I respond"
QPitch == "I am quick to pitch ideas in a group"
QMeet == "I enjoy meeting new people"
QRisk1 == "I am comfortable taking calculated risks"
QRisk2 == "I act even when the outcome is uncertain"

\* get_questions_for_trait(trait)
get_questions_for_trait(trait) ==
    CASE trait = "IN" -> <<QReflect, QPitch, QMeet>>
      [] trait = "RT" -> <<QRisk1, QRisk2>>
      [] trait = "RG" -> <<"I keep going after setbacks">>
      [] trait = "SL" -> <<"I put the needs of my team first">>
      [] trait = "EI" -> <<"I notice how others feel">>
      [] trait = "DM" -> <<"I decide quickly with the facts at hand">>
      [] trait = "PS" -> <<"I break problems into parts">>
      [] trait = "DA" -> <<"I set ambitious goals">>
      [] trait = "IO" -> <<"I look for new ways of doing things">>
      [] trait = "AD" -> <<"I adjust easily to change">>
      [] trait = "CT" -> <<"I question assumptions">>
      [] trait = "TB" -> <<"I bring people together">>
      [] trait = "A" -> <<"I own my mistakes">>
      [] trait = "RB" -> <<"I keep in touch with my contacts">>
      [] trait = "N" -> <<"I look for agreements that suit both sides">>
      [] trait = "C" -> <<"I address disagreements directly">>
      [] trait = "F" -> <<"I treat failure as a lesson">>
      [] OTHER -> <<>>

\* phrase in question, for the phrases the scorer looks for
Contains(question, phrase) ==
    <<question, phrase>> \in { <<QReflect, "reflect">>, <<QPitch, "pitch ideas">> }

\* get_likert_mapping()
likert_mapping ==
    [l \in {"Strongly Disagree", "Disagree", "Neutral", "Agree", "Strongly Agree"} |->
        CASE l = "Strongly Disagree" -> 0
          [] l = "Disagree" -> 300
          [] l = "Neutral" -> 600
          [] l = "Agree" -> 900
          [] l = "Strongly Agree" -> One]

\* a cell of the responses table: a string, a number or a missing value
Str(s) == [kind |-> "str", s |-> s, x |-> 0]
Num(x) == [kind |-> "num", s |-> "", x |-> x]
Missing == [kind |-> "nan", s |-> "", x |-> 0]

\* map_likert_to_numeric(raw): a value in [0,1], or NaN for a missing value
\* and for a label the mapping does not know
map_likert_to_numeric(cell) ==
    CASE cell.kind = "str" ->
            IF cell.s \in DOMAIN likert_mapping THEN likert_mapping[cell.s] ELSE NaN
      [] cell.kind = "nan" -> NaN
      [] OTHER -> cell.x

\* ------------------------------------------------------- FixedTraitScorer

\* np.clip(x, lo, hi)
np_clip(x, lo, hi) == IF IsNaN(x) THEN NaN ELSE IF x < lo THEN lo ELSE IF x > hi THEN hi ELSE x

\* np.log(p / (1 - p)) at p = 0.01, 0.05, 0.10, ..., 0.95, 0.99, in 1/1000
LogitPoints ==
    <<12, 60, 120, 180, 240, 300, 360, 420, 480, 540, 600, 660, 720, 780, 840, 900,
      960, 1020, 1080, 1140, 1188>>

LogitValues ==
    <<-4595, -2944, -2197, -1735, -1386, -1099, -847, -619, -405, -201, 0, 201, 405,
      619, 847, 1099, 1386, 1735, 2197, 2944, 4595>>

\* np.log(p / (1 - p)) for p in [0.01, 0.99], linear between the points above
response_logit(p) ==
    IF IsNaN(p) THEN NaN
    ELSE LET k == CHOOSE i \in 1..(Len(LogitPoints) - 1) :
                      LogitPoints[i] <= p /\ p <= LogitPoints[i + 1]
         IN  LogitValues[k]
             + ((p - LogitPoints[k]) * (LogitValues[k + 1] - LogitValues[k]))
               \div (LogitPoints[k + 1] - LogitPoints[k])

\* exp(x) / (1 + exp(x)) at x = -10.0, -9.75, ..., 10.0, in 1/1200
LogisticValues ==
    <<0, 0, 0, 0, 0, 0, 0, 0, 0, 1, 1, 1, 1, 1, 2, 2, 3, 4, 5, 6, 8, 10, 13, 17, 22,
      28, 35, 45, 57, 72, 91, 114, 143, 178, 219, 267, 323, 385, 453, 525, 600, 675,
      747, 815, 877, 933, 981, 1022, 1057, 1086, 1109, 1128, 1143, 1155, 1165, 1172,
      1178, 1183, 1187, 1190, 1192, 1194, 1195, 1196, 1197, 1198, 1198, 1199, 1199,
      1199, 1199, 1199, 1200, 1200, 1200, 1200, 1200, 1200, 1200, 1200, 1200>>

\* np.exp overflows to inf above 709.78: inf / (1 + inf) is nan
ExpOverflow == 709782

\* exp(x) / (1 + exp(x)) rounds to exactly 1.0 from about 37 on
LogisticOne == 37000

\* np.exp underflows to 0.0 below -745
ExpUnderflow == 745000

\* exp(x) / (1 + exp(x)) for a finite float x: exactly 1.0 or 0.0 only where the
\* float result is, otherwise strictly inside (0,1)
Logistic(x) ==
    IF x > ExpOverflow THEN NaN
    ELSE IF x >= LogisticOne THEN One
    ELSE IF x < 0 - ExpUnderflow THEN 0
    ELSE IF x >= 10000 THEN One - 1
    ELSE IF x < -10000 THEN 1
    ELSE LET k == ((x + 10000) \div 250) + 1
             y == LogisticValues[k]
                  + ((x - ((k - 1) * 250 - 10000)) * (LogisticValues[k + 1] - LogisticValues[k]))
                    \div 250
         IN  IF y < 1 THEN 1 ELSE IF y > One - 1 THEN One - 1 ELSE y

\* _convert_logit_to_0_1: np.exp warns and never raises, so the except branch
\* is not taken
_convert_logit_to_0_1(logit_value) ==
    IF IsNaN(logit_value) THEN NaN
    ELSE np_clip(Logistic(logit_value), 0, One)

\* mutant: the response to an introversion-phrased question is reverse-keyed
\* in the calibrated path as well
ResponseNumeric_reverse_keyed(question, cell) ==
    LET raw == IF cell.kind = "str" THEN map_likert_to_numeric(cell) ELSE cell.x
    IN  IF Contains(question, "reflect") THEN NSub(One, raw) ELSE raw

\* response_numeric: the mapped label of a string, float(response_value) of a
\* number
ResponseNumeric(question, cell) ==
    IF cell.kind = "str" THEN map_likert_to_numeric(cell) ELSE cell.x

\* the estimate and weight of an item whose difficulty d is known
KnownItem(response_numeric, d) ==
    [score |-> NAdd(response_logit(np_clip(response_numeric, 12, 1188)), d),
     weight |-> Abs(d) + 1000]

\* mutant: without a known difficulty the estimate is the logit of the response
UnknownItem_from_response(response_numeric, overall) ==
    [score |-> response_logit(np_clip(response_numeric, 12, 1188)), weight |-> 1000]

\* the estimate and weight of an item without a known difficulty: the overall
\* ability of the person, weight 1.0
UnknownItem(response_numeric, overall) == [score |-> overall, weight |-> 1000]

\* _calculate_traits_from_rasch, inner loop: the item estimates and weights of
\* the questions qs, as records [score, weight]
RECURSIVE trait_items(_, _, _, _)
trait_items(qs, person_data, item_difficulties, overall) ==
    IF qs = <<>> THEN <<>>
    ELSE LET question == Head(qs)
             rest == trait_items(Tail(qs), person_data, item_difficulties, overall)
         IN  IF question \notin DOMAIN person_data THEN rest
             ELSE IF person_data[question].kind = "nan" THEN rest
             ELSE LET response_numeric == ResponseNumeric(question, person_data[question])
                  IN  IF question \in DOMAIN item_difficulties
                      THEN <<KnownItem(response_numeric, item_difficulties[question])>>
                           \o rest
                      ELSE <<UnknownItem(response_numeric, overall)>> \o rest

RECURSIVE WeightedSum(_)
WeightedSum(items) ==
    IF items = <<>> THEN 0
    ELSE NAdd(NTimes(Head(items).score, Head(items).weight), WeightedSum(Tail(items)))

RECURSIVE WeightSum(_)
WeightSum(items) ==
    IF items = <<>> THEN 0 ELSE Head(items).weight + WeightSum(Tail(items))

\* np.average(abilities_array, weights=weights_array); the two lists always
\* have the same length, so np.mean is never used
weighted_average(items) == NOver(WeightedSum(items), WeightSum(items))

\* the values of a trait's questions that _calculate_trait_fallback_mean keeps
RECURSIVE fallback_values(_, _)
fallback_values(qs, person_data) ==
    IF qs = <<>> THEN <<>>
    ELSE LET rest == fallback_values(Tail(qs), person_data)
         IN  IF Head(qs) \notin DOMAIN person_data THEN rest
             ELSE LET value == map_likert_to_numeric(person_data[Head(qs)])
                  IN  IF IsNaN(value) THEN rest ELSE <<value>> \o rest

\* the default neutral score
Neutral == Half

_calculate_trait_fallback_mean(person_data, trait) ==
    LET trait_values == fallback_values(get_questions_for_trait(trait), person_data)
    IN  IF trait_values # <<>> THEN NOver(NSum(trait_values), Len(trait_values))
        ELSE Neutral

\* mutant: a trait that falls back discards the scores computed so far
StoreFallback_person_global(scores, person_data, trait) ==
    [x \in DOMAIN scores \cup {trait} |->
        IF x = trait THEN _calculate_trait_fallback_mean(person_data, trait) ELSE Neutral]

\* trait_scores[trait] = ... for a trait without usable items, calibrated path
StoreFallback(scores, person_data, trait) ==
    Put(scores, trait, _calculate_trait_fallback_mean(person_data, trait))

\* _calculate_traits_from_rasch, outer loop over the traits from position i on
RECURSIVE rasch_loop(_, _, _, _, _)
rasch_loop(i, scores, person_data, item_difficulties, overall) ==
    IF i > Len(trait_names) THEN scores
    ELSE LET trait == trait_names[i]
             items == trait_items(get_questions_for_trait(trait), person_data,
                                  item_difficulties, overall)
             next == IF items # <<>>
                     THEN Put(scores, trait, _convert_logit_to_0_1(weighted_average(items)))
                     ELSE StoreFallback(scores, person_data, trait)
         IN  rasch_loop(i + 1, next, person_data, item_difficulties, overall)

_calculate_traits_from_rasch(person_data, person_id, item_difficulties, person_abilities) ==
    rasch_loop(1, NoScores, person_data, item_difficulties,
               IF person_id \in DOMAIN person_abilities
               THEN person_abilities[person_id] ELSE 0)

\* the traits for which trait_item_scores stays empty, so that the else branch
\* of _calculate_traits_from_rasch calls _calculate_trait_fallback_mean
traits_without_items(person_data, person_id, eng) ==
    { trait_names[i] : i \in { j \in 1..Len(trait_names) :
        trait_items(get_questions_for_trait(trait_names[j]), person_data,
                    eng.rasch_item_difficulties,
                    IF person_id \in DOMAIN eng.rasch_person_abilities
                    THEN eng.rasch_person_abilities[person_id] ELSE 0) = <<>> } }

\* _calculate_traits_from_mean, social orientation: [value * weight, weight] of
\* every question whose column is present; weights are counted in halves
RECURSIVE social_items(_, _)
social_items(qs, person_data) ==
    IF qs = <<>> THEN <<>>
    ELSE LET question == Head(qs)
             rest == social_items(Tail(qs), person_data)
         IN  IF question \notin DOMAIN person_data THEN rest
             ELSE LET raw_val == map_likert_to_numeric(person_data[question])
                  IN  IF \/ Contains(question, "drain my energy")
                         \/ Contains(question, "observant")
                         \/ Contains(question, "active listener")
                         \/ Contains(question, "reflect")
                      THEN <<[score |-> NSub(One, raw_val), weight |-> 2]>> \o rest
                      ELSE IF \/ Contains(question, "pitch ideas")
                              \/ Contains(question, "jump into conversations")
                      THEN <<[score |-> raw_val, weight |-> 3]>> \o rest
                      ELSE <<[score |-> raw_val, weight |-> 2]>> \o rest

\* _calculate_traits_from_mean, standard traits: the value of every question
\* whose column is present
RECURSIVE mean_values(_, _)
mean_values(qs, person_data) ==
    IF qs = <<>> THEN <<>>
    ELSE LET rest == mean_values(Tail(qs), person_data)
         IN  IF Head(qs) \notin DOMAIN person_data THEN rest
             ELSE <<map_likert_to_numeric(person_data[Head(qs)])>> \o rest

\* mutant: a trait without values gets no entry
StoreNeutral_skips(scores, trait) == scores

\* trait_scores[trait] = 0.5 for a trait without values, arithmetic-mean path
StoreNeutral(scores, trait) == Put(scores, trait, Neutral)

\* _calculate_traits_from_mean, loop over the traits from position i on
RECURSIVE mean_loop(_, _, _)
mean_loop(i, scores, person_data) ==
    IF i > Len(trait_names) THEN scores
    ELSE LET trait == trait_names[i]
             qs == get_questions_for_trait(trait)
             next ==
                 IF trait = "IN"
                 THEN LET items == social_items(qs, person_data)
                      IN  IF items # <<>>
                          THEN Put(scores, trait, weighted_average(items))
                          ELSE StoreNeutral(scores, trait)
                 ELSE LET trait_values == mean_values(qs, person_data)
                      IN  IF trait_values # <<>>
                          THEN Put(scores, trait,
                                   NOver(NSum(trait_values), Len(trait_values)))
                          ELSE StoreNeutral(scores, trait)
         IN  mean_loop(i + 1, next, person_data)

_calculate_traits_from_mean(person_data, person_id) == mean_loop(1, NoScores, person_data)

\* _calculate_person_traits: the branch taken for a person
UsesRasch(eng, person_id) ==
    eng.use_rasch /\ person_id \in DOMAIN eng.rasch_person_abilities

_calculate_person_traits(eng, person_data, person_id) ==
    IF UsesRasch(eng, person_id)
    THEN _calculate_traits_from_rasch(person_data, person_id,
             eng.rasch_item_difficulties, eng.rasch_person_abilities)
    ELSE _calculate_traits_from_mean(person_data, person_id)

\* f"person_{idx}" for the rows 0, 1, 2, ... of the table
PersonIds == <<"person_0", "person_1", "person_2", "person_3">>

person_id_of(idx) == PersonIds[idx + 1]

NoMap == [x \in {} |-> 0]

\* FixedTraitScorer.__init__: no Rasch results yet
FreshEngine ==
    [use_rasch |-> FALSE, rasch_item_difficulties |-> NoMap,
     rasch_person_abilities |-> NoMap]

\* set_rasch_results
set_rasch_results(eng, item_difficulties, person_abilities) ==
    [use_rasch |-> TRUE, rasch_item_difficulties |-> item_difficulties,
     rasch_person_abilities |-> person_abilities]

\* calculate_trait_scores, first part: the engine after "Set Rasch results if
\* provided"; rr.given is FALSE for rasch_results=None
engine_after(eng, rr) ==
    IF rr.given /\ rr.item_difficulties # NoMap /\ rr.person_abilities # NoMap
    THEN set_rasch_results(eng, rr.item_difficulties, rr.person_abilities)
    ELSE eng

\* calculate_trait_scores, the loop over the rows
RECURSIVE profiles_loop(_, _, _, _)
profiles_loop(idx, acc, eng, rows) ==
    IF idx >= Len(rows) THEN acc
    ELSE profiles_loop(idx + 1,
             Put(acc, person_id_of(idx),
                 _calculate_person_traits(eng, rows[idx + 1], person_id_of(idx))),
             eng, rows)

calculate_trait_scores(eng, rows, rr) ==
    profiles_loop(0, NoMap, engine_after(eng, rr), rows)

\* ------------------------------------------------- detect_archetype inputs

\* the trait-score map of the specification's worked example
ExampleScores ==
    [c \in TraitCodes |->
        CASE c = "RT" -> 1080 [] c = "IO" -> 1020 [] c = "CT" -> 960
          [] c = "DM" -> 900 [] OTHER -> Half]

DetectBases == { NoScores, [c \in TraitCodes |-> Half], ExampleScores }

\* codes an override may touch: every key-trait code and one code no archetype reads
DetectCodes ==
    UNION { { trait_name_to_code(Catalog[i].key_traits[j]) :
                j \in 1..Len(Catalog[i].key_traits) } : i \in 1..Len(Catalog) }
    \cup {"IN"}

\* values an override may write: 0, 0.5, 0.9 and 1.5; -1 removes the entry
OverrideValues == {-1, 0, Half, 1080, 1800}

ApplyOverride(ts, c, v) ==
    IF v < 0 THEN [k \in DOMAIN ts \ {c} |-> ts[k]]
    ELSE [k \in DOMAIN ts \cup {c} |-> IF k = c THEN v ELSE ts[k]]

RECURSIVE ApplyOverrides(_, _, _)
ApplyOverrides(ts, ovs, i) ==
    IF i > Len(ovs) THEN ts
    ELSE ApplyOverrides(ApplyOverride(ts, ovs[i][1], ovs[i][2]), ovs, i + 1)

DetectInputs ==
    { ApplyOverrides(b, ovs, 1) :
        b \in DetectBases, ovs \in [1..MaxOverrides -> DetectCodes \X OverrideValues] }

\* ------------------------------------------- calculate_trait_scores inputs

\* the column sets of the tables: no question column, the risk-taking
\* questions, the social-orientation questions, or one question of each
ColumnSets == { {}, {QRisk1, QRisk2}, {QReflect, QPitch, QMeet}, {QRisk2, QReflect} }

\* what an answered cell holds: a Likert label, the number 0.2, or a text the
\* Likert mapping does not know
AnswerValues == { Str("Strongly Disagree"), Str("Agree"), Num(240), Str("N/A") }

TablesOver(cols, n) ==
    { [i \in 1..n |-> [c \in cols |-> IF <<i, c>> \in DOMAIN f THEN f[<<i, c>>] ELSE Missing]] :
        f \in UNION { [P -> AnswerValues] :
                        P \in { Q \in SUBSET ((1..n) \X cols) :
                                   Cardinality(Q) <= MaxAnswered } } }

DfInputs == UNION { TablesOver(cols, n) : cols \in ColumnSets, n \in 0..MaxRows }

\* rasch_results=None
NoRasch == [given |-> FALSE, item_difficulties |-> NoMap, person_abilities |-> NoMap]

\* item difficulties (logits, in 1/1000): none, or 0.5 and -1.5 for two questions
DifficultyInputs == { NoMap, (QRisk1 :> 500) @@ (QReflect :> -1500) }

\* person abilities (logits, in 1/1000): none, the first person, the first two
AbilityInputs ==
    { NoMap, ("person_0" :> 1200), ("person_0" :> 1200) @@ ("person_1" :> -700) }

RaschInputs ==
    {NoRasch} \cup
    { [given |-> TRUE, item_difficulties |-> d, person_abilities |-> a] :
        d \in DifficultyInputs, a \in AbilityInputs }

\* ------------------------------------------------------- ReportGenerator

\* the methods the class ReportGenerator defines
ReportGeneratorMethods ==
    { "__init__", "generate_inspiring_content", "_generate_llm_content",
      "_generate_fallback_content", "_create_llm_context", "_load_trait_descriptions",
      "_get_trait_code_from_name", "_generate_comprehensive_executive_summary",
      "_generate_strengths_explanation", "_generate_growth_explanation",
      "_generate_individual_growth_explanations", "_get_trait_description",
      "_vary_first_sentence_only", "_generate_archetype_activation_description",
      "generate_comprehensive_report" }

\* the outcome of a call: the value returned, or the exception that left it
Returned(value) == [raised |-> FALSE, exception |-> "", value |-> value]

Raised(exception) == [raised |-> TRUE, exception |-> exception, value |-> <<>>]

NoOutcome == [raised |-> FALSE, exception |-> "", value |-> <<>>]

\* _generate_fallback_content: self.<method>(...) raises AttributeError when
\* the class defines no such method
_generate_fallback_content(data) ==
    IF "_create_personalized_executive_summary" \notin ReportGeneratorMethods
    THEN Raised("AttributeError")
    ELSE IF "_create_archetype_description" \notin ReportGeneratorMethods
    THEN Raised("AttributeError")
    ELSE Returned([executive_summary |-> "personalized executive summary",
                   archetype_description |-> "archetype description"])

\* what the client does with one request: it answers, or the request raises
LlmReplies == {"text of the reply", "request raised"}

\* f"Generated content for {content_type}"
GeneratedContentFor(content_type) ==
    IF content_type = "executive_summary"
    THEN "Generated content for executive_summary"
    ELSE "Generated content for archetype_description"

\* _generate_llm_content: the reply, or the placeholder without a client and
\* when anything in the request raises
_generate_llm_content(content_type, client, reply) ==
    IF ~client THEN GeneratedContentFor(content_type)
    ELSE IF reply = "request raised" THEN GeneratedContentFor(content_type)
    ELSE reply

\* generate_inspiring_content: without a client the fallback content; what the
\* fallback raises inside try is caught, and the handler calls the fallback again
generate_inspiring_content(client, data, replies) ==
    IF ~client
    THEN LET content == _generate_fallback_content(data)
         IN  IF content.raised THEN _generate_fallback_content(data) ELSE content
    ELSE Returned([executive_summary |->
                       _generate_llm_content("executive_summary", client, replies[1]),
                   archetype_description |->
                       _generate_llm_content("archetype_description", client, replies[2])])

\* d.update(other): the keys of other replace those of d
DictUpdate(d, other) == other @@ d

\* seq[:n]
FirstN(seq, n) == SubSeq(seq, 1, IF Len(seq) < n THEN Len(seq) ELSE n)

\* a trait-score dict is the sequence of its items, in insertion order
ItemCodes(items) == [i \in 1..Len(items) |-> items[i].code]

\* {k: v for k, v in trait_scores.items() if k != 'IN'}
filtered_scores(trait_scores_dict) ==
    SelectSeq(trait_scores_dict, LAMBDA item : item.code # "IN")

\* sorted(items, key=lambda x: x[1]): stable, equal scores keep their order
sorted_traits(items) ==
    [k \in 1..Len(items) |->
        items[CHOOSE i \in 1..Len(items) :
                Cardinality({ j \in 1..Len(items) :
                                \/ items[j].score < items[i].score
                                \/ items[j].score = items[i].score /\ j < i }) = k - 1]]

\* sorted(items, key=lambda x: x[1], reverse=True): stable as well, so equal
\* scores keep their insertion order here too
sorted_traits_reverse(items) ==
    [k \in 1..Len(items) |->
        items[CHOOSE i \in 1..Len(items) :
                Cardinality({ j \in 1..Len(items) :
                                \/ items[j].score > items[i].score
                                \/ items[j].score = items[i].score /\ j < i }) = k - 1]]

\* _generate_growth_explanation: the bottom traits its text (or its prompt) names
_generate_growth_explanation(trait_scores_dict) ==
    LET sorted == sorted_traits(filtered_scores(trait_scores_dict))
        top_3_traits == FirstN(sorted_traits_reverse(filtered_scores(trait_scores_dict)), 3)
        top_3_codes == { top_3_traits[i].code : i \in 1..Len(top_3_traits) }
        bottom_traits ==
            FirstN(SelectSeq(sorted, LAMBDA item : item.code \notin top_3_codes), 3)
    IN  ItemCodes(IF Len(bottom_traits) < 3 THEN FirstN(sorted, 3) ELSE bottom_traits)

\* _generate_individual_growth_explanations: the traits explained, in order
_generate_individual_growth_explanations(trait_scores_dict) ==
    ItemCodes(FirstN(sorted_traits(filtered_scores(trait_scores_dict)), 3))

\* generate_comprehensive_report, lines 891 and 894: the two growth sections
generate_comprehensive_report(data) ==
    DictUpdate(data,
        [growth_explanation |-> _generate_growth_explanation(data.trait_scores),
         growth_trait_explanations |->
             _generate_individual_growth_explanations(data.trait_scores)])

\* ----------------------------------------------------- VisualizationEngine

\* mutant: the heatmap lists its columns with two neighbours exchanged
heatmap_trait_names_exchanged ==
    << "Social Orientation", "Resilience & Grit", "Servant Leadership",
       "Emotional Intelligence", "Problem-Solving", "Decision-Making",
       "Drive & Ambition", "Innovation Orientation", "Adaptability",
       "Critical Thinking", "Team Building", "Risk Taking", "Accountability",
       "Relationship-Building", "Negotiation", "Conflict Resolution",
       "Approach to Failure" >>

\* create_archetype_heatmap: trait_names
heatmap_trait_names ==
    << "Social Orientation", "Resilience & Grit", "Servant Leadership",
       "Emotional Intelligence", "Decision-Making", "Problem-Solving",
       "Drive & Ambition", "Innovation Orientation", "Adaptability",
       "Critical Thinking", "Team Building", "Risk Taking", "Accountability",
       "Relationship-Building", "Negotiation", "Conflict Resolution",
       "Approach to Failure" >>

\* create_archetype_heatmap: heatmap_to_archetype_mapping
heatmap_to_archetype_mapping ==
    [ n \in { "Social Orientation", "Resilience & Grit", "Servant Leadership",
              "Emotional Intelligence", "Decision-Making", "Problem-Solving",
              "Drive & Ambition", "Innovation Orientation", "Adaptability",
              "Critical Thinking", "Team Building", "Risk Taking", "Accountability",
              "Relationship-Building", "Negotiation", "Conflict Resolution",
              "Approach to Failure" } |->
        CASE n = "Resilience & Grit" -> "Resilience and Grit"
          [] n = "Decision-Making" -> "Decision Making"
          [] n = "Problem-Solving" -> "Problem Solving"
          [] n = "Drive & Ambition" -> "Drive and Ambition"
          [] OTHER -> n ]

\* create_archetype_heatmap: archetypes, the rows in display order
heatmap_archetypes ==
    << "Adaptive<br>Intelligence", "Ambitious Drive", "Collaborative<br>Responsibility",
       "Resilient<br>Leadership", "Strategic<br>Innovation" >>

\* create_archetype_heatmap: archetype_display_to_full
archetype_display_to_full ==
    [ d \in { heatmap_archetypes[r] : r \in 1..Len(heatmap_archetypes) } |->
        CASE d = "Adaptive<br>Intelligence" -> "Adaptive Intelligence"
          [] d = "Collaborative<br>Responsibility" -> "Collaborative Responsibility"
          [] d = "Resilient<br>Leadership" -> "Resilient Leadership"
          [] d = "Strategic<br>Innovation" -> "Strategic Innovation"
          [] OTHER -> d ]

\* d.get(k, default)
DictGet(d, k, default) == IF k \in DOMAIN d THEN d[k] ELSE default

\* [0.0] * 17
SeventeenZeros == [j \in 1..17 |-> 0]

\* create_archetype_heatmap: trait_score_matrix, from the table of a detector
\* constructed for this call
create_archetype_heatmap(data) ==
    LET table == get_archetype_correlation_data(Catalog)
    IN  [r \in 1..Len(heatmap_archetypes) |->
            LET archetype_full ==
                    DictGet(archetype_display_to_full, heatmap_archetypes[r],
                            heatmap_archetypes[r])
                found == DictGet(table, archetype_full, SeventeenZeros)
                scores == IF Len(found) < 17
                          THEN found \o [j \in 1..(17 - Len(found)) |-> 0]
                          ELSE SubSeq(found, 1, 17)
            IN  [i \in 1..Len(heatmap_trait_names) |->
                    IF i <= Len(scores) THEN scores[i] ELSE 0]]

\* create_growth_opportunities_gauges: the traits of the gauges, left to right
create_growth_opportunities_gauges(trait_scores_dict) ==
    LET sorted == sorted_traits(filtered_scores(trait_scores_dict))
        top_3_traits == FirstN(sorted_traits_reverse(filtered_scores(trait_scores_dict)), 3)
        top_3_codes == { top_3_traits[i].code : i \in 1..Len(top_3_traits) }
        bottom_traits ==
            FirstN(SelectSeq(sorted, LAMBDA item : item.code \notin top_3_codes), 3)
    IN  ItemCodes(IF Len(bottom_traits) < 3 THEN FirstN(sorted, 3) ELSE bottom_traits)

\* generate_all_visualizations: the heatmap and the growth gauges; the radar
\* chart, the bar chart and the top-trait gauges are carried as drawn
generate_all_visualizations(data) ==
    [archetype_heatmap |-> create_archetype_heatmap(data),
     trait_radar_chart |-> "chart",
     trait_bar_chart |-> "chart",
     top_trait_gauges |-> "chart",
     growth_gauges_chart |-> create_growth_opportunities_gauges(data.trait_scores)]

\* ------------------------------------------- what the calls leave behind

\* mutant: calculate_trait_scores writes the neutral 0.5 into the missing cells
\* of the table it was given
df_after_score_filled(rows, rr) ==
    [i \in 1..Len(rows) |->
        [c \in DOMAIN rows[i] |->
            IF rows[i][c].kind = "nan" THEN Num(Half) ELSE rows[i][c]]]

\* the caller's table after calculate_trait_scores: df.iterrows() and
\* person_data[question] read it, nothing assigns to it
df_after_score(rows, rr) == rows

\* the caller's snapshot after calculate_trait_scores: .get reads it, and
\* set_rasch_results keeps its two maps without writing to them
rasch_results_after_score(rows, rr) == rr

\* the caller's trait_scores map after detect_archetype: read with in and []
trait_scores_after_detect(cat, ts) == ts

\* no call in progress
NoPassed == [df |-> <<>>, rasch_results |-> NoRasch, trait_scores |-> NoScores]

\* ----------------------------------------------------------------- actions

NoArchetype == [id |-> "", name |-> "", score |-> 0, key_traits |-> <<>>]

NoResult ==
    [archetype_name |-> "", archetype_score |-> 0, confidence |-> 0,
     key_traits |-> <<>>, all_scores |-> NoScores]

Engine ==
    [use_rasch |-> use_rasch, rasch_item_difficulties |-> rasch_item_difficulties,
     rasch_person_abilities |-> rasch_person_abilities]

Init ==
    /\ pc = "idle"
    /\ archetypes = Catalog
    /\ trait_scores = NoScores
    /\ result = NoResult
    /\ use_rasch = FreshEngine.use_rasch
    /\ rasch_item_difficulties = FreshEngine.rasch_item_difficulties
    /\ rasch_person_abilities = FreshEngine.rasch_person_abilities
    /\ df = <<>>
    /\ rasch_results = NoRasch
    /\ profiles = NoMap
    /\ path_taken = NoMap
    /\ fallback_traits = NoMap
    /\ corr_trait = ""
    /\ corr_archetype = NoArchetype
    /\ corr_value = 0
    /\ correlation_data = NoMap
    /\ passed = NoPassed
    /\ logit_arg = 0
    /\ logit_result = 0
    /\ fallback_data = NoMap
    /\ fallback_trait = ""
    /\ fallback_mean = 0
    /\ openai_client = FALSE
    /\ profile_data = NoMap
    /\ inspiring_content = NoOutcome

\* a caller invokes ArchetypeDetector.detect_archetype(trait_scores)
Detect ==
    /\ pc = "idle"
    /\ \E ts \in DetectInputs :
          /\ passed' = [NoPassed EXCEPT !.trait_scores = ts]
          /\ trait_scores' = trait_scores_after_detect(archetypes, ts)
          /\ result' = detect_archetype(archetypes, ts)
          /\ archetypes' = archetypes_after_detect(archetypes, ts)
    /\ pc' = "detected"
    /\ UNCHANGED <<scorer_vars, call_vars, corr_vars, direct_vars, report_vars>>

\* the caller takes the returned value; the detector is ready for the next call
DetectReturn ==
    /\ pc = "detected"
    /\ pc' = "idle"
    /\ trait_scores' = NoScores
    /\ result' = NoResult
    /\ passed' = NoPassed
    /\ UNCHANGED <<archetypes, scorer_vars, call_vars, corr_vars, direct_vars,
                   report_vars>>

NextDetect == Detect \/ DetectReturn

SpecDetect == Init /\ [][NextDetect]_vars

\* what one call calculate_trait_scores(rows, rr) assigns
ScoreCall(rows, rr) ==
          LET eng == engine_after(Engine, rr)
          IN  /\ passed' = [NoPassed EXCEPT !.df = rows, !.rasch_results = rr]
              /\ df' = df_after_score(rows, rr)
              /\ rasch_results' = rasch_results_after_score(rows, rr)
              /\ use_rasch' = eng.use_rasch
              /\ rasch_item_difficulties' = eng.rasch_item_difficulties
              /\ rasch_person_abilities' = eng.rasch_person_abilities
              /\ profiles' = calculate_trait_scores(Engine, rows, rr)
              /\ path_taken' =
                    [p \in { person_id_of(i) : i \in 0..(Len(rows) - 1) } |->
                        IF UsesRasch(eng, p) THEN "rasch" ELSE "mean"]
              /\ fallback_traits' =
                    [p \in { person_id_of(i) : i \in 0..(Len(rows) - 1) } |->
                        IF UsesRasch(eng, p)
                        THEN traits_without_items(rows[CHOOSE i \in 1..Len(rows) :
                                                          person_id_of(i - 1) = p],
                                                  p, eng)
                        ELSE {}]

\* a caller invokes FixedTraitScorer.calculate_trait_scores(df, rasch_results)
Score ==
    /\ pc = "idle"
    /\ \E rows \in DfInputs, rr \in RaschInputs : ScoreCall(rows, rr)
    /\ pc' = "scored"
    /\ UNCHANGED <<detector_vars, corr_vars, direct_vars, report_vars>>

\* the caller takes the profiles; the scorer keeps its fields for the next call
ScoreReturn ==
    /\ pc = "scored"
    /\ pc' = "idle"
    /\ df' = <<>>
    /\ rasch_results' = NoRasch
    /\ profiles' = NoMap
    /\ path_taken' = NoMap
    /\ fallback_traits' = NoMap
    /\ passed' = NoPassed
    /\ UNCHANGED <<detector_vars, scorer_vars, corr_vars, direct_vars, report_vars>>

NextScore == Score \/ ScoreReturn

SpecScore == Init /\ [][NextScore]_vars

\* ------------------------------------------------------ correlation calls

\* trait names passed to the correlation: the 17 of the table, two hyphenated
\* spellings and one name the category table does not list
CorrelationTraits ==
    { all_traits[j] : j \in 1..Len(all_traits) }
    \cup {"Decision-Making", "Risk-Taking", "Leadership"}

\* a key-trait list longer than any of the catalog, headed by Social Orientation
LongKeyTraits ==
    << "Social Orientation", "Negotiation", "Risk Taking", "Adaptability",
       "Accountability", "Team Building", "Critical Thinking" >>

KeyTraitLists == { Catalog[i].key_traits : i \in 1..Len(Catalog) } \cup {LongKeyTraits}

\* the catalog's names and one name the focus table does not list
ArchetypeNames == { Catalog[i].name : i \in 1..Len(Catalog) } \cup {"Custom Archetype"}

\* Archetype objects passed to the correlation
ArchetypeInputs ==
    { [id |-> "input", name |-> n, score |-> 0, key_traits |-> k] :
        n \in ArchetypeNames, k \in KeyTraitLists }

\* a caller invokes _calculate_trait_archetype_correlation(trait_name, archetype)
Correlate ==
    /\ pc = "idle"
    /\ \E t \in CorrelationTraits, a \in ArchetypeInputs :
          /\ corr_trait' = t
          /\ corr_archetype' = a
          /\ corr_value' = _calculate_trait_archetype_correlation(t, a)
    /\ pc' = "correlated"
    /\ UNCHANGED <<detector_vars, scorer_vars, call_vars, correlation_data, passed,
                   direct_vars, report_vars>>

\* a caller invokes get_archetype_correlation_data(), possibly while it still
\* holds the result of a detect_archetype call
GetCorrelationData ==
    /\ pc \in {"idle", "detected"}
    /\ correlation_data' = get_archetype_correlation_data(archetypes)
    /\ pc' = "tabled"
    /\ UNCHANGED <<detector_vars, scorer_vars, call_vars,
                   corr_trait, corr_archetype, corr_value, passed, direct_vars,
                   report_vars>>

\* the caller takes the returned value
CorrelationReturn ==
    /\ pc \in {"correlated", "tabled"}
    /\ pc' = "idle"
    /\ trait_scores' = NoScores
    /\ result' = NoResult
    /\ corr_trait' = ""
    /\ corr_archetype' = NoArchetype
    /\ corr_value' = 0
    /\ correlation_data' = NoMap
    /\ passed' = NoPassed
    /\ UNCHANGED <<archetypes, scorer_vars, call_vars, direct_vars, report_vars>>

NextCorrelation ==
    \/ Score \/ ScoreReturn
    \/ Detect \/ DetectReturn
    \/ Correlate \/ GetCorrelationData \/ CorrelationReturn

SpecCorrelation == Init /\ [][NextCorrelation]_vars

\* the correlation calls on a detector that serves no other call
NextTable == Correlate \/ GetCorrelationData \/ CorrelationReturn

SpecTable == Init /\ [][NextTable]_vars

\* ------------------------------------------------- logit conversion calls

\* logits passed to the conversion (in 1/1000): -12.0 to 12.0 in steps of 0.1,
\* and values around the points where the float arithmetic changes behaviour
LogitInputs ==
    { 100 * k : k \in (0 - 120)..120 }
    \cup { 36000, 37000, 709000, 710000, 800000,
           0 - 36000, 0 - 37000, 0 - 745000, 0 - 746000, 0 - 800000 }

\* a caller invokes FixedTraitScorer._convert_logit_to_0_1(logit_value)
ConvertLogit ==
    /\ pc = "idle"
    /\ \E x \in LogitInputs :
          /\ logit_arg' = x
          /\ logit_result' = _convert_logit_to_0_1(x)
    /\ pc' = "converted"
    /\ UNCHANGED <<detector_vars, scorer_vars, call_vars, corr_vars, passed,
                   fallback_vars, report_vars>>

\* the caller takes the returned value
LogitReturn ==
    /\ pc = "converted"
    /\ pc' = "idle"
    /\ logit_arg' = 0
    /\ logit_result' = 0
    /\ UNCHANGED <<detector_vars, scorer_vars, call_vars, corr_vars, passed,
                   fallback_vars, report_vars>>

NextLogit == ConvertLogit \/ LogitReturn

SpecLogit == Init /\ [][NextLogit]_vars

\* ------------------------------------------------------ fallback mean calls

\* the traits whose questions the tables hold
FallbackTraits == {"IN", "RT"}

\* a caller invokes _calculate_trait_fallback_mean(person_data, trait) with a
\* row of a responses table
FallbackMean ==
    /\ pc = "idle"
    /\ \E rows \in DfInputs, trait \in FallbackTraits :
          \E i \in 1..Len(rows) :
             /\ fallback_data' = rows[i]
             /\ fallback_trait' = trait
             /\ fallback_mean' = _calculate_trait_fallback_mean(rows[i], trait)
    /\ pc' = "averaged"
    /\ UNCHANGED <<detector_vars, scorer_vars, call_vars, corr_vars, passed,
                   logit_vars, report_vars>>

\* the caller takes the returned value
FallbackReturn ==
    /\ pc = "averaged"
    /\ pc' = "idle"
    /\ fallback_data' = NoMap
    /\ fallback_trait' = ""
    /\ fallback_mean' = 0
    /\ UNCHANGED <<detector_vars, scorer_vars, call_vars, corr_vars, passed,
                   logit_vars, report_vars>>

\* snapshots that know the difficulty of the reflection question only, for two
\* persons of equal or of different ability
PartialSnapshots ==
    { [given |-> TRUE, item_difficulties |-> (QReflect :> -1500), person_abilities |-> a] :
        a \in { ("person_0" :> 1200) @@ ("person_1" :> 1200),
                ("person_0" :> 1200) @@ ("person_1" :> -700) } }

\* a caller invokes calculate_trait_scores with a snapshot that leaves every
\* question of a trait without a difficulty
ScorePartial ==
    /\ pc = "idle"
    /\ \E rows \in DfInputs, rr \in PartialSnapshots : ScoreCall(rows, rr)
    /\ pc' = "scored"
    /\ UNCHANGED <<detector_vars, corr_vars, direct_vars, report_vars>>

NextPartial == ScorePartial \/ ScoreReturn

SpecPartial == Init /\ [][NextPartial]_vars

\* the responses tables that hold the column of the reflection question
SocialTables == { rows \in DfInputs : \A i \in 1..Len(rows) : QReflect \in DOMAIN rows[i] }

\* a caller invokes calculate_trait_scores with a table that holds
\* social-orientation questions
ScoreSocial ==
    /\ pc = "idle"
    /\ \E rows \in SocialTables, rr \in RaschInputs : ScoreCall(rows, rr)
    /\ pc' = "scored"
    /\ UNCHANGED <<detector_vars, corr_vars, direct_vars, report_vars>>

NextFallback == ScoreSocial \/ ScoreReturn \/ FallbackMean \/ FallbackReturn

SpecFallback == Init /\ [][NextFallback]_vars

\* ------------------------------------------------------- the pipeline's run

\* the largest number of traits in a profile
MaxTraits == 7

\* trait scores of the profiles: 0.2, 0.5 and 0.8
ProfileScores == {240, 600, 960}

\* the trait codes of the profiles: the first keys of the engine's
\* trait_descriptions, social orientation among them
ProfileCodes == <<"IN", "DM", "RB", "N", "CT", "PS", "A", "EI">>

\* trait-score dicts: the first codes, each with one of the scores
TraitScoreDicts ==
    UNION { { [i \in 1..k |-> [code |-> ProfileCodes[i], score |-> f[i]]] :
                f \in [1..k -> ProfileScores] } : k \in 1..MaxTraits }

\* profile_data as step 8 of process_single_person prepares it; of its keys
\* the steps after it read trait_scores
ProfileInputs == { [trait_scores |-> ts] : ts \in TraitScoreDicts }

\* VetriaPipeline.__init__: fresh components, and a client for the report
\* generator when the openai package imports and OPENAI_API_KEY is set
PipelineInit ==
    /\ pc = "idle"
    /\ \E importable \in BOOLEAN, api_key \in BOOLEAN :
          openai_client' = (importable /\ api_key)
    /\ archetypes' = Catalog
    /\ use_rasch' = FreshEngine.use_rasch
    /\ rasch_item_difficulties' = FreshEngine.rasch_item_difficulties
    /\ rasch_person_abilities' = FreshEngine.rasch_person_abilities
    /\ UNCHANGED <<pc, trait_scores, result, call_vars, corr_vars, passed, direct_vars,
                   profile_data, inspiring_content>>

\* process_single_person, step 8: profile_data is prepared
PrepareProfile ==
    /\ pc = "idle"
    /\ profile_data' \in ProfileInputs
    /\ pc' = "profiled"
    /\ UNCHANGED <<detector_vars, scorer_vars, call_vars, corr_vars, passed,
                   direct_vars, openai_client, inspiring_content>>

\* process_single_person, step 9: generate_all_visualizations and update
GenerateVisualizations ==
    /\ pc = "profiled"
    /\ profile_data' = DictUpdate(profile_data, generate_all_visualizations(profile_data))
    /\ pc' = "visualized"
    /\ UNCHANGED <<detector_vars, scorer_vars, call_vars, corr_vars, passed,
                   direct_vars, openai_client, inspiring_content>>

\* process_single_person, step 10: generate_inspiring_content and update, then
\* the success return; an exception is logged and raised again
GenerateInspiringContent ==
    /\ pc = "visualized"
    /\ \E replies \in [1..2 -> LlmReplies] :
          LET outcome == generate_inspiring_content(openai_client, profile_data, replies)
          IN  /\ inspiring_content' = outcome
              /\ IF outcome.raised
                 THEN /\ pc' = "raised"
                      /\ UNCHANGED profile_data
                 ELSE /\ pc' = "succeeded"
                      /\ profile_data' = DictUpdate(profile_data, outcome.value)
    /\ UNCHANGED <<detector_vars, scorer_vars, call_vars, corr_vars, passed,
                   direct_vars, openai_client>>

\* generate_report, after process_single_person returned: the report generator
\* adds the growth sections to the data
GenerateReport ==
    /\ pc = "succeeded"
    /\ profile_data' = generate_comprehensive_report(profile_data)
    /\ pc' = "reported"
    /\ UNCHANGED <<detector_vars, scorer_vars, call_vars, corr_vars, passed,
                   direct_vars, openai_client, inspiring_content>>

\* generate_report returns the report's path, or the exception leaves it
PipelineReturn ==
    /\ pc \in {"raised", "reported"}
    /\ pc' = "idle"
    /\ profile_data' = NoMap
    /\ inspiring_content' = NoOutcome
    /\ UNCHANGED <<detector_vars, scorer_vars, call_vars, corr_vars, passed,
                   direct_vars, openai_client>>

NextReport ==
    \/ PipelineInit \/ PrepareProfile \/ GenerateVisualizations
    \/ GenerateInspiringContent \/ GenerateReport \/ PipelineReturn

SpecReport == Init /\ [][NextReport]_vars

\* ------------------------------------------------ claims: detect_archetype

\* positions of an archetype's key traits whose code is a key of ts
PresentKeys(i, ts) ==
    { j \in 1..Len(Catalog[i].key_traits) :
        trait_name_to_code(Catalog[i].key_traits[j]) \in DOMAIN ts }

RECURSIVE SumOver(_, _, _)
SumOver(i, ts, js) ==
    IF js = {} THEN 0
    ELSE LET j == CHOOSE x \in js : TRUE
         IN  ts[trait_name_to_code(Catalog[i].key_traits[j])] + SumOver(i, ts, js \ {j})

\* the key-trait average of archetype i, 0 when none of its key traits is present
KeyAvg(i, ts) ==
    IF PresentKeys(i, ts) = {} THEN 0
    ELSE SumOver(i, ts, PresentKeys(i, ts)) \div Cardinality(PresentKeys(i, ts))

Positions == 1..Len(Catalog)

MaxKeyAvg(ts) ==
    CHOOSE m \in { KeyAvg(i, ts) : i \in Positions } :
        \A i \in Positions : KeyAvg(i, ts) <= m

ArgMax(ts) == { i \in Positions : KeyAvg(i, ts) = MaxKeyAvg(ts) }

First(S) == CHOOSE i \in S : \A k \in S : i <= k

SomeKeyPresent(ts) == \E i \in Positions : PresentKeys(i, ts) # {}

\* C5: when some archetype has a key-trait average above 0, detect_archetype
\* returns an archetype whose average over its present key traits is the
\* maximum over all archetypes, archetype_score is that maximum, and the worked
\* example returns Strategic Innovation with 0.825 (990/1200).
C5_ReturnsMaxAverage ==
    pc = "detected" =>
        /\ MaxKeyAvg(trait_scores) > 0 =>
              /\ \E i \in ArgMax(trait_scores) :
                     result.archetype_name = Catalog[i].name
              /\ result.archetype_score = MaxKeyAvg(trait_scores)
        /\ trait_scores = ExampleScores =>
              /\ result.archetype_name = "Strategic Innovation"
              /\ result.archetype_score = 990

\* a winner, not first in the catalog, one of whose key traits is absent
C5_Witness ==
    /\ pc = "detected"
    /\ MaxKeyAvg(trait_scores) > 0
    /\ \E i \in Positions :
          /\ i > 1
          /\ result.archetype_name = Catalog[i].name
          /\ PresentKeys(i, trait_scores) # {}
          /\ PresentKeys(i, trait_scores) # 1..Len(Catalog[i].key_traits)
          /\ \A k \in Positions \ {i} : KeyAvg(k, trait_scores) < KeyAvg(i, trait_scores)

AllAveragesZero(ts) ==
    /\ SomeKeyPresent(ts)
    /\ \A i \in Positions : KeyAvg(i, ts) = 0

\* C7 as stated: with a key trait present and every average 0, the first
\* archetype of the catalog is returned.
C7_Original_ZeroTieFirst ==
    (pc = "detected" /\ AllAveragesZero(trait_scores))
    => result.archetype_name = Catalog[1].name

\* C7 amended: with a key trait present and every average 0, no archetype wins
\* and the Unknown sentinel is returned.
C7_ZeroTieUnknown ==
    (pc = "detected" /\ AllAveragesZero(trait_scores)) => result = UnknownResult

C7_Witness ==
    /\ pc = "detected"
    /\ AllAveragesZero(trait_scores)
    /\ PresentKeys(1, trait_scores) # {}
    /\ result.archetype_name = "Unknown"

\* C8: when trait_scores holds no key-trait code of any archetype,
\* detect_archetype returns the sentinel: 'Unknown', no key traits, score 0.0
\* and confidence 0.0.
C8_NoKeyTraitUnknown ==
    (pc = "detected" /\ ~SomeKeyPresent(trait_scores)) =>
        /\ result.archetype_name = "Unknown"
        /\ result.key_traits = <<>>
        /\ result.archetype_score = 0
        /\ result.confidence = 0

\* a non-empty map without any key-trait code
C8_Witness ==
    /\ pc = "detected"
    /\ DOMAIN trait_scores # {}
    /\ ~SomeKeyPresent(trait_scores)
    /\ result.archetype_name = "Unknown"

\* C9: confidence = min(archetype_score, 1.0) in every result; it lies in
\* [0,1] for non-negative inputs and equals archetype_score when every input
\* lies in [0,1].
C9_ConfidenceIsMin ==
    pc = "detected" =>
        /\ result.confidence =
              (IF result.archetype_score <= One THEN result.archetype_score ELSE One)
        /\ (\A c \in DOMAIN trait_scores : trait_scores[c] >= 0)
              => (0 <= result.confidence /\ result.confidence <= One)
        /\ (\A c \in DOMAIN trait_scores : 0 <= trait_scores[c] /\ trait_scores[c] <= One)
              => result.confidence = result.archetype_score

\* a winning average above 1.0, cut to confidence 1.0
C9_Witness ==
    /\ pc = "detected"
    /\ result.archetype_score > One
    /\ result.confidence = One

\* C10 as stated: looking up the returned archetype name in all_scores yields
\* archetype_score.
C10_Original_KeyedByName ==
    (pc = "detected" /\ result.archetype_name # "Unknown") =>
        /\ result.archetype_name \in DOMAIN result.all_scores
        /\ result.all_scores[result.archetype_name] = result.archetype_score

\* C10 amended: all_scores is keyed by catalog id, has one entry per archetype
\* with a key trait present, each that archetype's average, and the entry
\* under the returned archetype's id is archetype_score.
C10_KeyedById ==
    (pc = "detected" /\ result.archetype_name # "Unknown") =>
        /\ DOMAIN result.all_scores =
              { Catalog[i].id : i \in { k \in Positions : PresentKeys(k, trait_scores) # {} } }
        /\ \A i \in Positions :
              PresentKeys(i, trait_scores) # {} =>
                  result.all_scores[Catalog[i].id] = KeyAvg(i, trait_scores)
        /\ \E i \in Positions :
              /\ Catalog[i].name = result.archetype_name
              /\ result.all_scores[Catalog[i].id] = result.archetype_score

\* a result whose all_scores leaves out an archetype without present key traits
C10_Witness ==
    /\ pc = "detected"
    /\ result.archetype_name # "Unknown"
    /\ Cardinality(DOMAIN result.all_scores) \in 2..(Len(Catalog) - 1)

\* ------------------------------------------ claims: calculate_trait_scores

Persons == { person_id_of(i) : i \in 0..(Len(df) - 1) }

AllTraits == { trait_names[i] : i \in 1..Len(trait_names) }

\* the snapshot passed to the call is usable: given, with both maps non-empty
SnapshotComplete(rr) ==
    rr.given /\ rr.item_difficulties # NoMap /\ rr.person_abilities # NoMap

\* C1: every trait score returned by calculate_trait_scores, for every person
\* and every calibration snapshot, lies in [0,1].
C1_Original_ScoresInUnitInterval ==
    pc = "scored" =>
        \A p \in DOMAIN profiles : \A t \in DOMAIN profiles[p] :
            0 <= profiles[p][t] /\ profiles[p][t] <= One

\* C2: the result has one entry per row of the table, and every entry has
\* exactly the trait codes of the trait/question map as its keys.
C2_OneEntryPerRowAllTraits ==
    pc = "scored" =>
        /\ DOMAIN profiles = Persons
        /\ Cardinality(DOMAIN profiles) = Len(df)
        /\ \A p \in DOMAIN profiles : DOMAIN profiles[p] = AllTraits

\* two rows, the first scored from calibration with one trait from item
\* estimates and the others by the per-trait fallback, the second by the mean
\* path with traits that have no column
C2_Witness ==
    /\ pc = "scored"
    /\ Len(df) = 2
    /\ path_taken["person_0"] = "rasch"
    /\ path_taken["person_1"] = "mean"
    /\ QRisk1 \in DOMAIN df[1]
    /\ df[1][QRisk1] = Str("Agree")
    /\ profiles["person_0"]["RT"] > Half
    /\ profiles["person_0"]["IN"] = Neutral
    /\ profiles["person_1"]["IN"] = Neutral

\* C3: a person is scored by the calibrated path exactly when the snapshot
\* passed to the call is non-empty and holds an ability for that person, and
\* by the arithmetic-mean path otherwise.
C3_Original_PathFollowsSnapshot ==
    pc = "scored" =>
        \A p \in DOMAIN path_taken :
            (path_taken[p] = "rasch") <=>
                (/\ SnapshotComplete(rasch_results)
                 /\ p \in DOMAIN rasch_results.person_abilities)

\* C4: the scores of a call are those a freshly constructed scorer returns for
\* the same table and snapshot, whatever calls came before.
C4_Original_SameAsFreshScorer ==
    pc = "scored" => profiles = calculate_trait_scores(FreshEngine, df, rasch_results)

\* -------------------------------------------------- claims: correlation

\* the 0-based positions at which a trait stands in an archetype's key-trait list
KeyPositions(archetype, trait_name) ==
    { j - 1 : j \in { x \in 1..Len(archetype.key_traits) :
                        archetype.key_traits[x] = trait_name } }

\* a correlation call on a key trait that is not Social Orientation
KeyTraitCall ==
    /\ pc = "correlated"
    /\ corr_trait # "Social Orientation"
    /\ KeyPositions(corr_archetype, corr_trait) # {}

\* a correlation call on a trait that is neither Social Orientation nor a key trait
OtherTraitCall ==
    /\ pc = "correlated"
    /\ corr_trait # "Social Orientation"
    /\ KeyPositions(corr_archetype, corr_trait) = {}

\* the sum of the character codes of trait_full_name + archetype_name
H == OrdSum(corr_trait) + OrdSum(corr_archetype.name)

C12_Original_PositionFourIs085 ==
    KeyTraitCall =>
        \A p \in KeyPositions(corr_archetype, corr_trait) :
            /\ p = 0 => corr_value = 90
            /\ p >= 4 => corr_value = 85

\* C12: a key trait (other than Social Orientation) at position 0 correlates
\* exactly 0.90, at position 4 exactly 0.86, and at position 5 or greater
\* exactly 0.85.
C12_PositionFiveIs085 ==
    KeyTraitCall =>
        \A p \in KeyPositions(corr_archetype, corr_trait) :
            /\ p = 0 => corr_value = 90
            /\ p = 4 => corr_value = 86
            /\ p >= 5 => corr_value = 85

\* the fifth key trait of Resilient Leadership's list correlates 0.86
C12_Witness ==
    /\ KeyTraitCall
    /\ corr_archetype.key_traits = Catalog[2].key_traits
    /\ KeyPositions(corr_archetype, corr_trait) = {4}
    /\ corr_value = 86

\* C13: a key trait (other than Social Orientation) at position i correlates
\* 0.85 + max(0, 0.05 - 0.01*i): within [0.85, 0.90], never increasing with i,
\* highest at position 0.
C13_KeyTraitByPosition ==
    KeyTraitCall =>
        /\ \A p \in KeyPositions(corr_archetype, corr_trait) :
              corr_value = 85 + (IF p < 5 THEN 5 - p ELSE 0)
        /\ corr_value >= 85 /\ corr_value <= 90
        /\ \A j \in 1..Len(corr_archetype.key_traits) :
              LET other == corr_archetype.key_traits[j]
                  v == _calculate_trait_archetype_correlation(other, corr_archetype)
              IN  other # "Social Orientation" =>
                    \A p \in KeyPositions(corr_archetype, corr_trait) :
                        /\ j - 1 > p => v <= corr_value
                        /\ j - 1 < p => v >= corr_value

\* a key trait at position 6, beyond the positions that earn a bonus
C13_Witness ==
    /\ KeyTraitCall
    /\ 6 \in KeyPositions(corr_archetype, corr_trait)
    /\ corr_value = 85

\* C14: for a trait that is neither Social Orientation nor a key trait the
\* correlation is 0.55 + (H mod 11)/100 when its category is the archetype's
\* primary focus, else 0.40 + (H mod 11)/100 when it is the secondary focus,
\* else 0.20 + (H mod 15)/100; an unlisted trait and an unlisted archetype fall
\* in the last band.
C14_CategoryBands ==
    OtherTraitCall =>
        LET category == trait_categories(corr_trait)
            focus == archetype_focus(corr_archetype.name)
        IN  /\ category = focus.primary =>
                  /\ corr_value = 55 + (H % 11)
                  /\ corr_value >= 55 /\ corr_value <= 65
            /\ (category # focus.primary /\ category = focus.secondary) =>
                  /\ corr_value = 40 + (H % 11)
                  /\ corr_value >= 40 /\ corr_value <= 50
            /\ (category # focus.primary /\ category # focus.secondary) =>
                  /\ corr_value = 20 + (H % 15)
                  /\ corr_value >= 20 /\ corr_value <= 35
            /\ (corr_trait = "Leadership" \/ corr_archetype.name = "Custom Archetype") =>
                  corr_value = 20 + (H % 15)

\* Problem Solving (Cognitive) against Strategic Innovation (primary Cognitive):
\* H = 1491 + 2027, H mod 11 = 9
C14_Witness ==
    /\ OtherTraitCall
    /\ corr_trait = "Problem Solving"
    /\ corr_archetype.name = "Strategic Innovation"
    /\ corr_value = 64

\* C15: get_archetype_correlation_data returns one entry per archetype of the
\* catalog, keyed by archetype name, each a list of 17 values in [0,1] in the
\* fixed trait order that begins with Social Orientation, the value at index j
\* being the correlation of trait j with that archetype.
C15_OneRowPerArchetype ==
    pc = "tabled" =>
        /\ DOMAIN correlation_data = { Catalog[i].name : i \in 1..Len(Catalog) }
        /\ Cardinality(DOMAIN correlation_data) = Len(Catalog)
        /\ all_traits[1] = "Social Orientation"
        /\ \A i \in 1..Len(Catalog) :
              LET row == correlation_data[Catalog[i].name]
              IN  /\ Len(row) = 17
                  /\ \A j \in 1..17 :
                        /\ row[j] >= 0 /\ row[j] <= 100
                        /\ row[j] = _calculate_trait_archetype_correlation(
                                        all_traits[j], Catalog[i])

\* the table holds the row the program prints for Strategic Innovation
C15_Witness ==
    /\ pc = "tabled"
    /\ "Strategic Innovation" \in DOMAIN correlation_data
    /\ correlation_data["Strategic Innovation"] =
          <<0, 43, 33, 20, 87, 64, 45, 89, 40, 88, 29, 90, 47, 32, 20, 28, 45>>

\* the table of a freshly constructed detector
FreshTable == get_archetype_correlation_data(Catalog)

\* C16: every call of get_archetype_correlation_data returns the table of a
\* fresh detector, whatever detect_archetype and scoring calls preceded it.
C16_TableIndependentOfHistory ==
    pc = "tabled" => correlation_data = FreshTable

\* the table is asked for after a calibrated scoring call and a detect_archetype
\* call that returned an archetype
C16_Witness ==
    /\ pc = "tabled"
    /\ use_rasch
    /\ trait_scores # NoScores
    /\ result.archetype_name # "Unknown"
    /\ correlation_data = FreshTable

\* ------------------------- claims: missing and unparseable responses

\* the questions of a trait in a set
Questions(trait) ==
    { get_questions_for_trait(trait)[j] : j \in 1..Len(get_questions_for_trait(trait)) }

\* the questions of a trait whose column is present and holds a usable answer
Usable(trait, row) ==
    { q \in Questions(trait) \cap DOMAIN row : ~IsNaN(map_likert_to_numeric(row[q])) }

\* the questions of a trait whose column is present but whose response is
\* missing or cannot be parsed
Unusable(trait, row) ==
    { q \in Questions(trait) \cap DOMAIN row : IsNaN(map_likert_to_numeric(row[q])) }

ReverseKeyed(q) ==
    \/ Contains(q, "drain my energy") \/ Contains(q, "observant")
    \/ Contains(q, "active listener") \/ Contains(q, "reflect")

HighAgency(q) == Contains(q, "pitch ideas") \/ Contains(q, "jump into conversations")

\* the weight of a social-orientation question, in halves: 1.0 or 1.5
ClaimedWeight(q) == IF ~ReverseKeyed(q) /\ HighAgency(q) THEN 3 ELSE 2

\* the value of a social-orientation question after reverse keying
ClaimedValue(q, row) ==
    IF ReverseKeyed(q) THEN One - map_likert_to_numeric(row[q])
    ELSE map_likert_to_numeric(row[q])

RECURSIVE SumOfValues(_, _)
SumOfValues(qs, row) ==
    IF qs = {} THEN 0
    ELSE LET q == CHOOSE x \in qs : TRUE
         IN  map_likert_to_numeric(row[q]) + SumOfValues(qs \ {q}, row)

RECURSIVE SumOfWeighted(_, _)
SumOfWeighted(qs, row) ==
    IF qs = {} THEN 0
    ELSE LET q == CHOOSE x \in qs : TRUE
         IN  (ClaimedValue(q, row) * ClaimedWeight(q)) + SumOfWeighted(qs \ {q}, row)

RECURSIVE SumOfWeights(_)
SumOfWeights(qs) ==
    IF qs = {} THEN 0
    ELSE LET q == CHOOSE x \in qs : TRUE
         IN  ClaimedWeight(q) + SumOfWeights(qs \ {q})

\* sum(w * v') / sum(w) over the usable social-orientation questions of a row
WeightedMeanOverAnswered(row) ==
    SumOfWeighted(Usable("IN", row), row) \div SumOfWeights(Usable("IN", row))

\* the mean of a trait over the usable questions of a row
MeanOverAnswered(trait, row) ==
    IF trait = "IN" THEN WeightedMeanOverAnswered(row)
    ELSE SumOfValues(Usable(trait, row), row) \div Cardinality(Usable(trait, row))

\* the rows of the last call scored by a path
RowsOn(path) == { i \in 1..Len(df) : path_taken[person_id_of(i - 1)] = path }

\* C17: in the arithmetic-mean path a question whose column is present but
\* whose response is missing or unparseable is skipped, so the trait score is
\* the mean over the remaining answered questions, for standard traits and for
\* social orientation alike.
C17_Original_MeanSkipsUnusable ==
    pc = "scored" =>
        \A i \in RowsOn("mean") : \A t \in AllTraits :
            (Unusable(t, df[i]) # {} /\ Usable(t, df[i]) # {}) =>
                profiles[person_id_of(i - 1)][t] = MeanOverAnswered(t, df[i])

\* a row in which every response that is unparseable is missing instead
AsMissing(row) ==
    [q \in DOMAIN row |-> IF IsNaN(map_likert_to_numeric(row[q])) THEN Missing ELSE row[q]]

\* C18: in the calibrated path a missing or unparseable response contributes
\* no item estimate and no weight, whether or not the item's difficulty is
\* known: the scores are those of the row without these responses.
C18_Original_RaschSkipsUnusable ==
    pc = "scored" =>
        \A i \in RowsOn("rasch") :
            profiles[person_id_of(i - 1)] =
                _calculate_traits_from_rasch(AsMissing(df[i]), person_id_of(i - 1),
                    rasch_item_difficulties, rasch_person_abilities)

\* C19: on either path a trait none of whose questions has a usable answer
\* (column absent, or response missing) gets exactly the neutral 0.5.
C19_Original_NoAnswerIsNeutral ==
    pc = "scored" =>
        \A i \in 1..Len(df) : \A t \in AllTraits :
            (\A q \in Questions(t) : q \notin DOMAIN df[i] \/ df[i][q] = Missing) =>
                profiles[person_id_of(i - 1)][t] = Neutral

\* C20: in the arithmetic-mean path the social-orientation score is
\* sum(w * v') / sum(w) over the answered questions, v' = 1 - v for a
\* reverse-keyed question, w = 1.5 for a high-agency question and 1.0 otherwise.
C20_Original_WeightedOverAnswered ==
    pc = "scored" =>
        \A i \in RowsOn("mean") :
            Usable("IN", df[i]) # {} =>
                profiles[person_id_of(i - 1)]["IN"] = WeightedMeanOverAnswered(df[i])

\* ------------------------------------------- claims: calibrated path

\* the overall ability the scorer holds for a person, 0.0 when it holds none
OverallAbility(p) ==
    IF p \in DOMAIN rasch_person_abilities THEN rasch_person_abilities[p] ELSE 0

\* the estimate a usable item contributes: response_logit + d, or the overall
\* ability when no difficulty is known for the question
ClaimedEstimate(q, row, p) ==
    IF q \in DOMAIN rasch_item_difficulties
    THEN response_logit(np_clip(map_likert_to_numeric(row[q]), 12, 1188))
         + rasch_item_difficulties[q]
    ELSE OverallAbility(p)

\* the weight of a usable item: |d| + 1.0, or 1.0 without a known difficulty
ClaimedItemWeight(q) ==
    IF q \in DOMAIN rasch_item_difficulties
    THEN Abs(rasch_item_difficulties[q]) + 1000
    ELSE 1000

RECURSIVE SumOfEstimates(_, _, _)
SumOfEstimates(qs, row, p) ==
    IF qs = {} THEN 0
    ELSE LET q == CHOOSE x \in qs : TRUE
         IN  (ClaimedEstimate(q, row, p) * ClaimedItemWeight(q))
             + SumOfEstimates(qs \ {q}, row, p)

RECURSIVE SumOfItemWeights(_)
SumOfItemWeights(qs) ==
    IF qs = {} THEN 0
    ELSE LET q == CHOOSE x \in qs : TRUE
         IN  ClaimedItemWeight(q) + SumOfItemWeights(qs \ {q})

\* the weight-normalized average of the usable items' estimates
ClaimedAggregate(t, row, p) ==
    SumOfEstimates(Usable(t, row), row, p) \div SumOfItemWeights(Usable(t, row))

\* C21: in the calibrated path the aggregated logit of a trait is the
\* weight-normalized average of its usable items' estimates (response_logit + d
\* with weight |d| + 1.0, or the overall ability with weight 1.0); the total
\* weight is at least 1 per item and the aggregate lies between the smallest and
\* the largest item estimate.
C21_Original_AggregateOverUsable ==
    pc = "scored" =>
        \A i \in RowsOn("rasch") : \A t \in AllTraits :
            LET p == person_id_of(i - 1)
                us == Usable(t, df[i])
            IN  us # {} =>
                  /\ SumOfItemWeights(us) >= 1000 * Cardinality(us)
                  /\ \E lo \in us : ClaimedEstimate(lo, df[i], p) <= ClaimedAggregate(t, df[i], p)
                  /\ \E hi \in us : ClaimedEstimate(hi, df[i], p) >= ClaimedAggregate(t, df[i], p)
                  /\ profiles[p][t] = _convert_logit_to_0_1(ClaimedAggregate(t, df[i], p))

\* the score the calibrated branch computes from the item estimates of a trait
ScoreFromItems(t, row, p) ==
    _convert_logit_to_0_1(weighted_average(
        trait_items(get_questions_for_trait(t), row, rasch_item_difficulties,
                    OverallAbility(p))))

C23_Original_LogitClamped ==
    pc = "converted" =>
        /\ ~IsNaN(logit_result)
        /\ 0 <= logit_result /\ logit_result <= One
        /\ logit_arg > 10000 => logit_result = One
        /\ logit_arg < 0 - 10000 => logit_result = 0
        /\ (0 - 10000 <= logit_arg /\ logit_arg <= 10000) =>
              logit_result = np_clip(Logistic(logit_arg), 0, One)

\* ----------------------------------------------- claims: inputs and catalog

\* C24: no core operation writes to its inputs or to the catalog: through any
\* sequence of calculate_trait_scores, detect_archetype and
\* get_archetype_correlation_data calls the responses table, the calibration
\* snapshot and the trait_scores map are as the caller passed them, the two
\* maps the scorer keeps are those of a snapshot it was given, and the catalog
\* (names, key-trait lists and their order, every score) is the shipped one.
C24_InputsAndCatalogUnchanged ==
    /\ archetypes = Catalog
    /\ df = passed.df
    /\ rasch_results = passed.rasch_results
    /\ trait_scores = passed.trait_scores
    /\ use_rasch =>
          \E rr \in RaschInputs :
              /\ rasch_item_difficulties = rr.item_difficulties
              /\ rasch_person_abilities = rr.person_abilities

\* a table call made while the result of a detect call is held, on a scorer
\* that was given a snapshot before
C24_Witness ==
    /\ pc = "tabled"
    /\ trait_scores # NoScores
    /\ use_rasch
    /\ rasch_item_difficulties # NoMap
    /\ correlation_data # NoMap

\* ------------------------------------------------ claims: report content

\* C25: when no LLM client is configured, generate_inspiring_content does not
\* raise and returns fallback content holding both 'executive_summary' and
\* 'archetype_description', so that process_single_person reaches its success
\* return after visualization.
C25_Original_FallbackContentReturned ==
    (pc \in {"succeeded", "raised"} /\ ~openai_client) =>
        /\ ~inspiring_content.raised
        /\ {"executive_summary", "archetype_description"}
              \subseteq DOMAIN inspiring_content.value
        /\ pc = "succeeded"

\* C26: for every trait-score map, tied scores included, the traits that
\* _generate_individual_growth_explanations explains are exactly the traits,
\* in the same order, that create_growth_opportunities_gauges displays and
\* that _generate_growth_explanation names: the lowest-scoring traits
\* excluding IN.
C26_Original_GrowthTraitsAgree ==
    pc = "reported" =>
        /\ profile_data.growth_trait_explanations = profile_data.growth_gauges_chart
        /\ profile_data.growth_trait_explanations = profile_data.growth_explanation
        /\ \A i \in 1..Len(profile_data.growth_trait_explanations) :
              profile_data.growth_trait_explanations[i] # "IN"

\* ----------------------------------------------------- claims: heatmap

\* the archetype of the shipped catalog that carries a name
ArchetypeNamed(n) == Catalog[CHOOSE i \in 1..Len(Catalog) : Catalog[i].name = n]

\* C27: in the heatmap the value in column j of an archetype's row is the
\* correlation of that archetype with the trait that labels column j: the
\* heatmap's trait order, mapped through its name-variant table, equals
\* position by position the trait order of get_archetype_correlation_data,
\* and each row is the one of the archetype named, not the one at its position.
C27_HeatmapCellsMatchLabels ==
    pc = "visualized" =>
        /\ Len(heatmap_trait_names) = Len(all_traits)
        /\ \A j \in 1..Len(heatmap_trait_names) :
              heatmap_to_archetype_mapping[heatmap_trait_names[j]] = all_traits[j]
        /\ \A r \in 1..Len(heatmap_archetypes) :
              \A j \in 1..Len(heatmap_trait_names) :
                 profile_data.archetype_heatmap[r][j] =
                    _calculate_trait_archetype_correlation(
                        heatmap_to_archetype_mapping[heatmap_trait_names[j]],
                        ArchetypeNamed(archetype_display_to_full[heatmap_archetypes[r]]))

\* the heatmap is drawn; its last row, Strategic Innovation, is the first of
\* the catalog and shows 0.87 under Decision-Making, its fourth key trait
C27_Witness ==
    /\ pc = "visualized"
    /\ heatmap_archetypes[5] = "Strategic<br>Innovation"
    /\ Catalog[1].name = "Strategic Innovation"
    /\ heatmap_trait_names[5] = "Decision-Making"
    /\ profile_data.archetype_heatmap[5][5] = 87
    /\ profile_data.archetype_heatmap[1][5] = 61

\* ------------------------------------------- claims: correlation bands

\* the band of a cell of the table: the override, a key trait of the
\* archetype, a trait of its primary or secondary category, or unrelated
CellKind(trait_name, archetype) ==
    IF trait_name = "Social Orientation" THEN "social"
    ELSE IF InList(trait_name, archetype.key_traits) THEN "key"
    ELSE IF trait_categories(trait_name) = archetype_focus(archetype.name).primary
    THEN "primary"
    ELSE IF trait_categories(trait_name) = archetype_focus(archetype.name).secondary
    THEN "secondary"
    ELSE "unrelated"

\* the values the table holds in an archetype's row for the cells of a band
CellsOfKind(archetype, kind) ==
    { correlation_data[archetype.name][j] :
        j \in { k \in 1..Len(all_traits) : CellKind(all_traits[k], archetype) = kind } }

Answered(trait, row) ==
    { q \in Questions(trait) \cap DOMAIN row : row[q].kind # "nan" }

\* the estimate of an answered question taken from the response as given,
\* without reverse keying
PlainEstimate(q, row, p) ==
    IF q \in DOMAIN rasch_item_difficulties
    THEN NAdd(response_logit(np_clip(map_likert_to_numeric(row[q]), 12, 1188)),
              rasch_item_difficulties[q])
    ELSE OverallAbility(p)

RECURSIVE SumOfPlain(_, _, _)
SumOfPlain(qs, row, p) ==
    IF qs = {} THEN 0
    ELSE LET q == CHOOSE x \in qs : TRUE
         IN  NAdd(NTimes(PlainEstimate(q, row, p), ClaimedItemWeight(q)),
                  SumOfPlain(qs \ {q}, row, p))

\* the score of a trait aggregated from the responses as given, with the
\* weights |d| + 1.0 or 1.0 and no other
PlainScore(t, row, p) ==
    _convert_logit_to_0_1(NOver(SumOfPlain(Answered(t, row), row, p),
                                SumOfItemWeights(Answered(t, row))))

\* the answers with a value above the value of a cell
HigherAnswers(cell) ==
    { v \in AnswerValues :
        /\ ~IsNaN(map_likert_to_numeric(v))
        /\ map_likert_to_numeric(v) > map_likert_to_numeric(cell) }

\* the IN score of a row in which the answer to question q is v
ScoreWithAnswer(row, p, q, v) ==
    _calculate_traits_from_rasch([row EXCEPT ![q] = v], p, rasch_item_difficulties,
                                 rasch_person_abilities)["IN"]

\* C29: reverse keying and the 1.5 weight of social orientation apply only in
\* the person-level arithmetic-mean path: for a person scored by the calibrated
\* path the IN score is aggregated from the responses as given by the rule of
\* every other trait, a higher answer to an introversion-phrased question
\* never lowers it, and the per-trait fallback mean is the plain unweighted
\* mean of the usable answers (0.5 without one).
C29_SocialOrientationPlainOutsideMeanPath ==
    /\ pc = "scored" =>
          \A i \in RowsOn("rasch") :
              LET p == person_id_of(i - 1)
              IN  /\ \A t \in AllTraits :
                        Answered(t, df[i]) # {} =>
                            profiles[p][t] = PlainScore(t, df[i], p)
                  /\ \A q \in Usable("IN", df[i]) :
                        ReverseKeyed(q) =>
                            \A v \in HigherAnswers(df[i][q]) :
                                IF IsNaN(profiles[p]["IN"])
                                THEN IsNaN(ScoreWithAnswer(df[i], p, q, v))
                                ELSE ScoreWithAnswer(df[i], p, q, v) >= profiles[p]["IN"]
    /\ pc = "averaged" =>
          fallback_mean =
              IF Usable(fallback_trait, fallback_data) = {} THEN Neutral
              ELSE SumOfValues(Usable(fallback_trait, fallback_data), fallback_data)
                   \div Cardinality(Usable(fallback_trait, fallback_data))

\* a person scored by the calibrated path agreed with the reflection question,
\* whose difficulty is known, and scores higher on IN than with a strong
\* disagreement
C29_Witness ==
    /\ pc = "scored"
    /\ 1 \in RowsOn("rasch")
    /\ QReflect \in DOMAIN df[1]
    /\ df[1][QReflect] = Str("Agree")
    /\ QReflect \in DOMAIN rasch_item_difficulties
    /\ profiles["person_0"]["IN"] = PlainScore("IN", df[1], "person_0")
    /\ ScoreWithAnswer(df[1], "person_0", QReflect, Str("Strongly Disagree"))
          < profiles["person_0"]["IN"]

\* ------------------------------------ claims: items without a difficulty

\* no difficulty is known for any question of the trait
NoDifficultyKnown(t) == Questions(t) \cap DOMAIN rasch_item_difficulties = {}

\* C30: in the calibrated path, when no item difficulty is known for any
\* question of a trait and at least one of its questions is answered, the trait
\* score is the converted overall ability of the person whatever the responses
\* are: two persons of the same overall ability who answered the same questions
\* of the trait receive the same score for it.
C30_ScoreFromAbilityAlone ==
    pc = "scored" =>
        \A i \in RowsOn("rasch") : \A t \in AllTraits :
            (NoDifficultyKnown(t) /\ Answered(t, df[i]) # {}) =>
                /\ profiles[person_id_of(i - 1)][t]
                      = _convert_logit_to_0_1(OverallAbility(person_id_of(i - 1)))
                /\ \A k \in RowsOn("rasch") :
                      (/\ OverallAbility(person_id_of(k - 1))
                            = OverallAbility(person_id_of(i - 1))
                       /\ Answered(t, df[k]) = Answered(t, df[i])) =>
                          profiles[person_id_of(k - 1)][t]
                              = profiles[person_id_of(i - 1)][t]

\* two persons of the same overall ability answered the first risk question,
\* for which no difficulty is known, differently and have the same RT score
C30_Witness ==
    /\ pc = "scored"
    /\ RowsOn("rasch") = {1, 2}
    /\ NoDifficultyKnown("RT")
    /\ OverallAbility("person_0") = OverallAbility("person_1")
    /\ Answered("RT", df[1]) = {QRisk1}
    /\ Answered("RT", df[2]) = {QRisk1}
    /\ df[1][QRisk1] # df[2][QRisk1]
    /\ profiles["person_0"]["RT"] = profiles["person_1"]["RT"]
    /\ profiles["person_0"]["RT"] # Neutral

====
